---- MODULE Spec2Model ----
\* Model of the two migration scripts of actano/migration-scripts:
\*   src/2025/migrate-to-react-18.js  (React 17 -> 18, specification Spec)
\*   src/unnamed/part_000             (Node 20 -> 22, specification SpecNode)
\* Strings are TLA+ strings; the scripts' regular expressions are computed on
\* them character by character with SubSeq.
EXTENDS Integers, Sequences, FiniteSets, TLC

VARIABLES
    pc,            \* position of the script's main function
    exited,        \* the process has ended
    exitCode,      \* its exit code (meaningful once exited)
    completed,     \* the completion message has been printed
    invoked,       \* external commands run so far (execSync)
    failed,        \* those that returned non-zero
    pkgExists,     \* ./package.json exists
    missingSeen,   \* the script has found package.json / a directory absent
    afterMissing,  \* steps and commands executed after that
    pkg,           \* React script: content of package.json on disk
    pkgAtStart,    \* React script: its content when the run started
    pkgWrites,     \* React script: number of writes to package.json
    nodeModules,   \* React script: installed manifests, by package name
    issues,        \* React script: issues recorded by each gate
    gate,          \* React script: outcome of each gate
    prompts,       \* React script: prompts issued by each gate
    answers,       \* React script: operator's answer to each gate's prompt
    node           \* Node script: its whole state (a record)

vars == <<pc, exited, exitCode, completed, invoked, failed, pkgExists,
          missingSeen, afterMissing, pkg, pkgAtStart, pkgWrites, nodeModules,
          issues, gate, prompts, answers, node>>

reactVars == <<pkg, pkgAtStart, pkgWrites, nodeModules, issues, gate, prompts, answers>>

-----------------------------------------------------------------------------
\* String helpers

\* RegExp.prototype.test for a literal, unanchored pattern
Contains(s, p) ==
    \E i \in 1..(Len(s) - Len(p) + 1) : SubSeq(s, i, i + Len(p) - 1) = p

\* String.prototype.startsWith, and a literal pattern anchored with ^
StartsWith(s, p) == Len(s) >= Len(p) /\ SubSeq(s, 1, Len(p)) = p

Whitespace == {" ", "\t", "\n", "\r"}

RECURSIVE TrimStart(_)
TrimStart(s) ==
    IF Len(s) > 0 /\ SubSeq(s, 1, 1) \in Whitespace
    THEN TrimStart(SubSeq(s, 2, Len(s)))
    ELSE s

RECURSIVE TrimEnd(_)
TrimEnd(s) ==
    IF Len(s) > 0 /\ SubSeq(s, Len(s), Len(s)) \in Whitespace
    THEN TrimEnd(SubSeq(s, 1, Len(s) - 1))
    ELSE s

\* String.prototype.trim
Trim(s) == TrimEnd(TrimStart(s))

LowerChar(c) ==
    CASE c = "Y" -> "y"
      [] c = "E" -> "e"
      [] c = "S" -> "s"
      [] c = "N" -> "n"
      [] c = "O" -> "o"
      [] OTHER -> c

\* String.prototype.toLowerCase, and the folding done by a regex's i flag
RECURSIVE ToLowerCase(_)
ToLowerCase(s) ==
    IF Len(s) = 0 THEN s
    ELSE LowerChar(SubSeq(s, 1, 1)) \o ToLowerCase(SubSeq(s, 2, Len(s)))

-----------------------------------------------------------------------------
\* React script: configuration

TargetNames == <<"react", "react-dom", "@testing-library/react", "react-test-renderer">>

TARGET_VERSIONS ==
    [n \in {TargetNames[i] : i \in 1..Len(TargetNames)} |->
        IF n = "@testing-library/react" THEN "^14.0.0" ELSE "^18.3.1"]

ignoreWarningsFor == {"react-test-renderer"}

RplanKeys == {"react", "react-dom"}

core == {"react", "react-dom", "@testing-library/react"}

\* a dependency group of package.json: absent, or a name -> version object
NoDeps == [n \in {} |-> ""]
AbsentGroup == [present |-> FALSE, deps |-> NoDeps]
Group(f) == [present |-> TRUE, deps |-> f]

\* { ...a, ...b } on two dependency groups (an absent group spreads to nothing)
Spread(a, b) ==
    [n \in DOMAIN a.deps \cup DOMAIN b.deps |->
        IF n \in DOMAIN b.deps THEN b.deps[n] ELSE a.deps[n]]

\* deps && deps[name]: the group exists and holds a non-empty string for name
Has(group, name) ==
    group.present /\ name \in DOMAIN group.deps /\ group.deps[name] # ""

-----------------------------------------------------------------------------
\* React script: pure parts

\* updateDeps with the presence test dropped: the entry is always assigned
updateDepsAlways(deps, name, version) ==
    [present |-> TRUE,
     deps |-> [n \in DOMAIN deps.deps \cup {name} |->
                  IF n = name THEN version ELSE deps.deps[n]]]

updateDeps(deps, name, version) ==
    IF Has(deps, name)
    THEN [deps EXCEPT !.deps[name] = version]
    ELSE deps

\* the loop of updateCoreReactDeps over Object.entries(TARGET_VERSIONS), from entry i on
RECURSIVE ApplyTargets(_, _)
ApplyTargets(p, i) ==
    IF i > Len(TargetNames) THEN p
    ELSE LET name == TargetNames[i]
             version == TARGET_VERSIONS[name]
         IN ApplyTargets(
                [dependencies     |-> updateDeps(p.dependencies, name, version),
                 devDependencies  |-> updateDeps(p.devDependencies, name, version),
                 peerDependencies |-> updateDeps(p.peerDependencies, name, version)],
                i + 1)

\* what `ncu "/@rplan\/.*/" -u` writes when it finds newer versions
LatestRplan == "^2.0.0"

NcuUpgradeGroup(group) ==
    [group EXCEPT !.deps =
        [n \in DOMAIN group.deps |->
            IF StartsWith(n, "@rplan/") THEN LatestRplan ELSE group.deps[n]]]

NcuUpgrade(p) ==
    [p EXCEPT !.dependencies = NcuUpgradeGroup(p.dependencies),
              !.devDependencies = NcuUpgradeGroup(p.devDependencies)]

\* the body of syncRplanPeerDepsToInstalled between load and save
SyncPeers(p) ==
    LET allDeps == Spread(p.dependencies, p.devDependencies)
        peer == p.peerDependencies.deps
    IN [p EXCEPT !.peerDependencies =
           Group([n \in DOMAIN peer |->
                     IF StartsWith(n, "@rplan/") /\ n \in DOMAIN allDeps /\ peer[n] # ""
                     THEN allDeps[n] ELSE peer[n]])]

\* the range test with the old major tested alone
RequiresReact17NoNewMajorTest(range) == Contains(range, "17.")

\* /17\./.test(range) && !/18/.test(range)
RequiresReact17(range) == Contains(range, "17.") /\ ~Contains(range, "18")

\* the scan of one dependency with a missing manifest reported as an issue
PeerIssuesMissingCounts(dep, keys) ==
    LET m == nodeModules[dep]
    IN IF m.state = "ok"
       THEN {[name |-> dep, peer |-> k, required |-> m.peer[k]] :
                k \in {k \in keys \cap DOMAIN m.peer :
                          m.peer[k] # "" /\ RequiresReact17(m.peer[k])}}
       ELSE {[name |-> dep, peer |-> "react", required |-> ""]}

\* the body of the for loop over the dependencies: the issues one dependency adds.
\* A missing manifest is skipped (continue); an unparsable one throws inside the
\* try and is caught before anything was pushed for it.
PeerIssues(dep, keys) ==
    LET m == nodeModules[dep]
    IN IF m.state = "missing" THEN {}
       ELSE IF m.state = "unparsable" THEN {}
       ELSE {[name |-> dep, peer |-> k, required |-> m.peer[k]] :
                k \in {k \in keys \cap DOMAIN m.peer :
                          m.peer[k] # "" /\ RequiresReact17(m.peer[k])}}

RplanDeps(p) ==
    {n \in DOMAIN Spread(p.dependencies, p.devDependencies) : StartsWith(n, "@rplan/")}

OtherDeps(p) ==
    {n \in DOMAIN Spread(p.dependencies, p.devDependencies) :
        ~StartsWith(n, "@rplan/") /\ n \notin core}

\* the skip condition of the allow-list: /^18\./ on the project's declared version
Exempt(p, dep) ==
    /\ dep \in ignoreWarningsFor
    /\ \/ Has(p.dependencies, dep) /\ StartsWith(p.dependencies.deps[dep], "18.")
       \/ Has(p.devDependencies, dep) /\ StartsWith(p.devDependencies.deps[dep], "18.")

RplanIssues(p) == UNION {PeerIssues(d, RplanKeys) : d \in RplanDeps(p)}

OtherIssues(p) ==
    UNION {PeerIssues(d, core) : d \in {d \in OtherDeps(p) : ~Exempt(p, d)}}

\* promptContinue resolving to true whatever the answer
promptContinueAlways(answer) == TRUE

\* promptContinue's resolved value: /^y(es)?$/i.test(answer.trim())
promptContinue(answer) == ToLowerCase(Trim(answer)) \in {"y", "yes"}

-----------------------------------------------------------------------------
\* React script: the inputs of a run

MaxEntries == 3

ProjectNames == {"react", "react-test-renderer", "@rplan/ui", "widget-lib"}

GroupNames == {"dependencies", "devDependencies", "peerDependencies"}

\* version strings a project may declare for a name ("" is npm's "any version")
DeclaredVersions(name) ==
    IF StartsWith(name, "@rplan/") THEN {"", "^1.0.0", "^1.4.0"}
    ELSE IF name = "widget-lib" THEN {"^3.1.0"}
    ELSE {"", "^17.0.2"}

AllEntries ==
    {[group |-> g, name |-> n, version |-> v] :
        g \in GroupNames, n \in ProjectNames, v \in {"", "^1.0.0", "^1.4.0", "^3.1.0", "^17.0.2"}}

Entries == {e \in AllEntries : e.version \in DeclaredVersions(e.name)}

\* the sets of at most k entries with no (group, name) declared twice
RECURSIVE EntrySets(_)
EntrySets(k) ==
    IF k = 0 THEN {{}}
    ELSE LET prev == EntrySets(k - 1)
         IN prev \cup
            UNION {{S \cup {e} :
                      e \in {e \in Entries :
                                \A x \in S : x.group # e.group \/ x.name # e.name}} :
                   S \in prev}

GroupOf(E, g, emptyPresent) ==
    LET mine == {e \in E : e.group = g}
    IN IF mine = {} /\ ~emptyPresent THEN AbsentGroup
       ELSE Group([n \in {e.name : e \in mine} |->
                      (CHOOSE e \in mine : e.name = n).version])

Manifest(E, emptyPresent) ==
    [dependencies     |-> GroupOf(E, "dependencies", emptyPresent),
     devDependencies  |-> GroupOf(E, "devDependencies", emptyPresent),
     peerDependencies |-> GroupOf(E, "peerDependencies", emptyPresent)]

\* peer ranges an installed package may declare
Ranges ==
    {"^17.0.0", "17.x", "^17", ">=17", "^17.0.0 || ^18.0.0", "^18.0.0",
     "^16.8.0 || ^17.0.0", ""}

NoPeers == [k \in {} |-> ""]

Installed(peer) == [state |-> "ok", peer |-> peer]
Missing == [state |-> "missing", peer |-> NoPeers]
Unparsable == [state |-> "unparsable", peer |-> NoPeers]

InstalledChoices(r) ==
    {Missing, Unparsable, Installed(NoPeers),
     Installed([k \in {"react"} |-> r]),
     Installed([k \in {"react", "react-dom"} |-> IF k = "react" THEN "^18.0.0" ELSE r]),
     Installed([k \in {"@testing-library/react"} |-> r])}

\* a project with one dependency of each kind, for the runs that vary node_modules
FixedManifests ==
    {[dependencies     |-> Group([n \in {"react", "@rplan/ui", "widget-lib"} |->
                                    IF n = "react" THEN "^17.0.2"
                                    ELSE IF n = "widget-lib" THEN "^3.1.0" ELSE "^1.0.0"]),
      devDependencies  |-> Group([n \in {"react-test-renderer"} |-> v]),
      peerDependencies |-> AbsentGroup] : v \in {"^17.0.2", "18.2.0", "^18.3.1"}}

DefaultNodeModules ==
    [n \in ProjectNames |->
        IF n = "react" THEN Installed(NoPeers)
        ELSE IF n = "widget-lib"
             THEN Installed([k \in {"react"} |-> "^17.0.0 || ^18.0.0"])
             ELSE Installed([k \in {"react"} |-> "^17.0.0"])]

\* what the operator may type at a prompt
Answers == {"y", "yes", " YES ", "Yes\n", "n", "", "no", "yes please"}

GateNames == {"rplan", "other"}

NodeIdle == [script |-> "react"]

InitCommon ==
    /\ pc = "ensureNCU"
    /\ exited = FALSE
    /\ exitCode = 0
    /\ completed = FALSE
    /\ invoked = {}
    /\ failed = {}
    /\ missingSeen = FALSE
    /\ afterMissing = {}

InitReactState ==
    /\ pkgAtStart = pkg
    /\ pkgWrites = 0
    /\ issues = [g \in GateNames |-> {}]
    /\ gate = [g \in GateNames |-> "notrun"]
    /\ prompts = [g \in GateNames |-> 0]
    /\ answers = [g \in GateNames |-> [given |-> FALSE, text |-> ""]]

\* runs that vary the project manifest
InitManifests ==
    /\ pkgExists = TRUE
    /\ \E E \in EntrySets(MaxEntries), emptyPresent \in BOOLEAN :
          pkg = Manifest(E, emptyPresent)
    /\ nodeModules = DefaultNodeModules

\* runs that vary the installed manifests
InitInstalled ==
    /\ pkgExists = TRUE
    /\ pkg \in FixedManifests
    /\ \E r \in Ranges :
          nodeModules \in [ProjectNames -> InstalledChoices(r)]
    /\ nodeModules["react"] = Installed(NoPeers)

\* the run in a directory without package.json
InitNoManifest ==
    /\ pkgExists = FALSE
    /\ pkg = Manifest({}, FALSE)
    /\ nodeModules = DefaultNodeModules

Init ==
    /\ InitCommon
    /\ InitManifests \/ InitInstalled \/ InitNoManifest
    /\ InitReactState
    /\ node = NodeIdle

-----------------------------------------------------------------------------
\* React script: the steps of migrate()

\* process.exit(code)
Exit(code) ==
    /\ pc' = "exited"
    /\ exited' = TRUE
    /\ exitCode' = code

\* execSync of the commands cmds, of which bad returned non-zero
Exec(cmds, bad) ==
    /\ invoked' = invoked \cup cmds
    /\ failed' = failed \cup bad
    /\ afterMissing' = IF missingSeen THEN afterMissing \cup cmds ELSE afterMissing

NoExec == UNCHANGED <<invoked, failed, afterMissing>>

EnsureNCU ==
    /\ pc = "ensureNCU"
    /\ \E found \in BOOLEAN, installed \in BOOLEAN :
          IF found
          THEN /\ Exec({"ncu -v"}, {})
               /\ pc' = "updateCore"
               /\ UNCHANGED <<exited, exitCode>>
          ELSE IF installed
          THEN /\ Exec({"ncu -v", "npm install -g npm-check-updates"}, {"ncu -v"})
               /\ pc' = "updateCore"
               /\ UNCHANGED <<exited, exitCode>>
          ELSE /\ Exec({"ncu -v", "npm install -g npm-check-updates"},
                       {"ncu -v", "npm install -g npm-check-updates"})
               /\ Exit(1)
    /\ UNCHANGED <<completed, pkgExists, missingSeen, reactVars, node>>

\* loadPackageJson finding no package.json: log.error and process.exit(1)
LoadFails ==
    /\ ~pkgExists
    /\ missingSeen' = TRUE
    /\ Exit(1)
    /\ NoExec
    /\ UNCHANGED <<completed, pkgExists, reactVars, node>>

UpdateCoreReactDeps ==
    /\ pc = "updateCore"
    /\ \/ LoadFails
       \/ /\ pkgExists
          /\ pkg' = ApplyTargets(pkg, 1)
          /\ pkgWrites' = pkgWrites + 1
          /\ pc' = "ncu"
          /\ NoExec
          /\ UNCHANGED <<exited, exitCode, completed, pkgExists, missingSeen,
                         pkgAtStart, nodeModules, issues, gate, prompts, answers, node>>

\* the catch block only logs: a failed ncu leaves package.json alone and the run goes on
UpdateRplanDepsWithNCU ==
    /\ pc = "ncu"
    /\ \E ok \in BOOLEAN, newer \in BOOLEAN :
          IF ok
          THEN /\ Exec({"ncu -u"}, {})
               /\ pkg' = IF newer THEN NcuUpgrade(pkg) ELSE pkg
               /\ pkgWrites' = IF newer THEN pkgWrites + 1 ELSE pkgWrites
          ELSE /\ Exec({"ncu -u"}, {"ncu -u"})
               /\ UNCHANGED <<pkg, pkgWrites>>
    /\ pc' = "sync"
    /\ UNCHANGED <<exited, exitCode, completed, pkgExists, missingSeen, pkgAtStart,
                   nodeModules, issues, gate, prompts, answers, node>>

\* syncRplanPeerDepsToInstalled returning before savePackageJson
SyncRplanPeerDepsNoSave ==
    /\ pc = "sync"
    /\ pkgExists
    /\ pc' = "checkRplan"
    /\ NoExec
    /\ UNCHANGED <<exited, exitCode, completed, pkgExists, missingSeen, reactVars, node>>

SyncRplanPeerDepsToInstalled ==
    /\ pc = "sync"
    /\ \/ LoadFails
       \/ /\ pkgExists
          /\ pkg' = SyncPeers(pkg)
          /\ pkgWrites' = pkgWrites + 1
          /\ pc' = "checkRplan"
          /\ NoExec
          /\ UNCHANGED <<exited, exitCode, completed, pkgExists, missingSeen,
                         pkgAtStart, nodeModules, issues, gate, prompts, answers, node>>

\* a gate that asks the operator whether or not anything was found
ScanAlwaysPrompts(g, found, next) ==
    /\ issues' = [issues EXCEPT ![g] = found]
    /\ prompts' = [prompts EXCEPT ![g] = @ + 1]
    /\ gate' = [gate EXCEPT ![g] = "prompting"]
    /\ pc' = "prompt"
    /\ NoExec
    /\ UNCHANGED <<exited, exitCode, completed, pkgExists, missingSeen, pkg,
                   pkgAtStart, pkgWrites, nodeModules, answers, node>>

\* a gate up to its await: the scan, then either the prompt or the success message
Scan(g, found, next) ==
    /\ issues' = [issues EXCEPT ![g] = found]
    /\ IF found # {}
       THEN /\ prompts' = [prompts EXCEPT ![g] = @ + 1]
            /\ gate' = [gate EXCEPT ![g] = "prompting"]
            /\ pc' = "prompt"
       ELSE /\ gate' = [gate EXCEPT ![g] = "Proceed"]
            /\ pc' = next
            /\ UNCHANGED prompts
    /\ NoExec
    /\ UNCHANGED <<exited, exitCode, completed, pkgExists, missingSeen, pkg,
                   pkgAtStart, pkgWrites, nodeModules, answers, node>>

\* a gate from the operator's answer on
Resume(g, next) ==
    /\ gate[g] = "prompting"
    /\ \E answer \in Answers :
          /\ answers' = [answers EXCEPT ![g] = [given |-> TRUE, text |-> answer]]
          /\ IF promptContinue(answer)
             THEN /\ gate' = [gate EXCEPT ![g] = "Proceed"]
                  /\ pc' = next
                  /\ UNCHANGED <<exited, exitCode>>
             ELSE /\ gate' = [gate EXCEPT ![g] = "Abort"]
                  /\ Exit(1)
    /\ NoExec
    /\ UNCHANGED <<completed, pkgExists, missingSeen, pkg, pkgAtStart, pkgWrites,
                   nodeModules, issues, prompts, node>>

CheckRplanPeerDepsForReact17Prompt ==
    /\ pc = "checkRplan"
    /\ \/ LoadFails
       \/ pkgExists /\ Scan("rplan", RplanIssues(pkg), "checkNonRplan")

AnswerRplanPrompt ==
    /\ pc = "prompt"
    /\ Resume("rplan", "checkNonRplan")

CheckNonRplanPeerDepsForReact17Prompt ==
    /\ pc = "checkNonRplan"
    /\ \/ LoadFails
       \/ pkgExists /\ Scan("other", OtherIssues(pkg), "npmInstall")

AnswerNonRplanPrompt ==
    /\ pc = "prompt"
    /\ Resume("other", "npmInstall")

\* the last step of migrate(): npm install, then the completion message; the
\* process ends with code 0 when migrate() returns
NpmInstall ==
    /\ pc = "npmInstall"
    /\ \E ok \in BOOLEAN :
          IF ok
          THEN /\ Exec({"npm install"}, {})
               /\ completed' = TRUE
               /\ pc' = "done"
               /\ exited' = TRUE
               /\ exitCode' = 0
          ELSE /\ Exec({"npm install"}, {"npm install"})
               /\ Exit(1)
               /\ UNCHANGED completed
    /\ UNCHANGED <<pkgExists, missingSeen, reactVars, node>>

Next ==
    \/ EnsureNCU
    \/ UpdateCoreReactDeps
    \/ UpdateRplanDepsWithNCU
    \/ SyncRplanPeerDepsToInstalled
    \/ CheckRplanPeerDepsForReact17Prompt
    \/ AnswerRplanPrompt
    \/ CheckNonRplanPeerDepsForReact17Prompt
    \/ AnswerNonRplanPrompt
    \/ NpmInstall

Spec == Init /\ [][Next]_vars

-----------------------------------------------------------------------------
\* Node script: configuration and pure parts

NODE_VERSION == "22"

DOCKER_IMAGE_TAG == "22"

BaseImage ==
    "europe-west3-docker.pkg.dev/allex-artifacts/allex-artifacts-docker/allex-nodejs-base:"

Digits == <<"0", "1", "2", "3", "4", "5", "6", "7", "8", "9">>

IsDigit(c) == \E i \in 1..Len(Digits) : Digits[i] = c

DigitValue(c) == (CHOOSE i \in 1..Len(Digits) : Digits[i] = c) - 1

\* parseInt(s, 10) on a string of digits followed by anything (no digits: NaN, here -1)
RECURSIVE ParseDigits(_, _)
ParseDigits(s, acc) ==
    IF Len(s) > 0 /\ IsDigit(SubSeq(s, 1, 1))
    THEN ParseDigits(SubSeq(s, 2, Len(s)), 10 * acc + DigitValue(SubSeq(s, 1, 1)))
    ELSE acc

ParseInt(s) ==
    IF Len(s) > 0 /\ IsDigit(SubSeq(s, 1, 1)) THEN ParseDigits(s, 0) ELSE -1

\* s.split('.')[0]
RECURSIVE BeforeDot(_)
BeforeDot(s) ==
    IF Len(s) = 0 \/ SubSeq(s, 1, 1) = "." THEN ""
    ELSE SubSeq(s, 1, 1) \o BeforeDot(SubSeq(s, 2, Len(s)))

\* s.replace('v', ''): the first v only
RECURSIVE RemoveFirstV(_)
RemoveFirstV(s) ==
    IF Len(s) = 0 THEN s
    ELSE IF SubSeq(s, 1, 1) = "v" THEN SubSeq(s, 2, Len(s))
    ELSE SubSeq(s, 1, 1) \o RemoveFirstV(SubSeq(s, 2, Len(s)))

\* currentMajorVersion of verifyNodeCompatibility
MajorOf(version) == ParseInt(RemoveFirstV(BeforeDot(version)))

WordChars ==
    {"a", "b", "c", "d", "e", "f", "g", "h", "i", "j", "k", "l", "m", "n", "o", "p",
     "q", "r", "s", "t", "u", "v", "w", "x", "y", "z",
     "A", "B", "C", "D", "E", "F", "G", "H", "I", "J", "K", "L", "M", "N", "O", "P",
     "Q", "R", "S", "T", "U", "V", "W", "X", "Y", "Z",
     "0", "1", "2", "3", "4", "5", "6", "7", "8", "9", "_"}

\* what is left of s after a greedy [\w]*
RECURSIVE SkipWord(_)
SkipWord(s) ==
    IF Len(s) > 0 /\ SubSeq(s, 1, 1) \in WordChars
    THEN SkipWord(SubSeq(s, 2, Len(s)))
    ELSE s

\* what is left of s after a greedy \s*
SkipSpace(s) == TrimStart(s)

\* the least element of a non-empty set of positions
First(S) == CHOOSE i \in S : \A j \in S : i <= j

\* s.replace(/<image>20(-[\w]*)?/g, to): the leftmost match is replaced, then the
\* search goes on behind it
RECURSIVE ReplaceImage(_, _, _)
ReplaceImage(s, image, to) ==
    LET pattern == image \o "20"
        starts == {i \in 1..(Len(s) - Len(pattern) + 1) :
                      SubSeq(s, i, i + Len(pattern) - 1) = pattern}
    IN IF starts = {} THEN s
       ELSE LET i == First(starts)
                rest == SubSeq(s, i + Len(pattern), Len(s))
                after == IF StartsWith(rest, "-")
                         THEN SkipWord(SubSeq(rest, 2, Len(rest)))
                         ELSE rest
            IN SubSeq(s, 1, i - 1) \o to \o ReplaceImage(after, image, to)

\* the two replacements of checkAndUpdateDockerfiles (the unescaped dots of the
\* second pattern are taken as literal dots)
UpdateDockerfile(content) ==
    ReplaceImage(ReplaceImage(content, "node:", BaseImage \o DOCKER_IMAGE_TAG),
                 BaseImage, BaseImage \o DOCKER_IMAGE_TAG)

\* workflowYaml.replace(/node_version:\s*\[20\]/g, `node_version: [${NODE_VERSION}]`)
RECURSIVE UpdateWorkflow(_)
UpdateWorkflow(s) ==
    LET key == "node_version:"
        starts == {i \in 1..(Len(s) - Len(key) + 1) :
                      /\ SubSeq(s, i, i + Len(key) - 1) = key
                      /\ StartsWith(SkipSpace(SubSeq(s, i + Len(key), Len(s))), "[20]")}
    IN IF starts = {} THEN s
       ELSE LET i == First(starts)
                rest == SkipSpace(SubSeq(s, i + Len(key), Len(s)))
            IN SubSeq(s, 1, i - 1) \o "node_version: [" \o NODE_VERSION \o "]"
                  \o UpdateWorkflow(SubSeq(rest, 5, Len(rest)))

\* promptUpdateRplan's resolved value, and the test of the Dockerfile prompt
SaysYes(answer) == ToLowerCase(answer) = "yes"

-----------------------------------------------------------------------------
\* Node script: the inputs of a run

MaxWorkflows == 1

MaxDockerfiles == 2

ProcessVersions == {"v18.20.4", "v20.11.1", "v22.3.0", "v24.0.1"}

WorkflowContents == {"node_version: [20]", "node_version:[20] # lts", "node_version: [22]"}

DockerfileContents ==
    {"FROM node:20-bullseye", "FROM node:22", "FROM " \o BaseImage \o "20-slim"}

RECURSIVE SeqsUpTo(_, _)
SeqsUpTo(S, n) ==
    IF n = 0 THEN {<<>>}
    ELSE LET shorter == SeqsUpTo(S, n - 1)
         IN shorter \cup {Append(q, x) : q \in shorter, x \in S}

NodeAnswers == {"yes", "YES", "no", " yes", ""}

InitNode ==
    /\ pc = "verify"
    /\ exited = FALSE
    /\ exitCode = 0
    /\ completed = FALSE
    /\ invoked = {}
    /\ failed = {}
    /\ missingSeen = FALSE
    /\ afterMissing = {}
    /\ pkgExists \in BOOLEAN
    /\ pkg = Manifest({}, FALSE)
    /\ nodeModules = DefaultNodeModules
    /\ InitReactState
    /\ \E version \in ProcessVersions,
          hasWorkflows \in BOOLEAN,
          files \in SeqsUpTo(WorkflowContents, MaxWorkflows),
          types \in {"", "^20.11.0"},
          dockerfiles \in SeqsUpTo(DockerfileContents, MaxDockerfiles) :
          /\ hasWorkflows \/ files = <<>>
          /\ pkgExists \/ types = ""
          /\ node = [script        |-> "node",
                     version       |-> version,
                     engines       |-> "",
                     typesNode     |-> types,
                     hasWorkflows  |-> hasWorkflows,
                     workflows     |-> files,
                     dockerfiles   |-> dockerfiles,
                     rlOpen        |-> TRUE,
                     pending       |-> "none",
                     rplanAnswer   |-> [given |-> FALSE, text |-> ""],
                     dockerAnswer  |-> [given |-> FALSE, text |-> ""]]

-----------------------------------------------------------------------------
\* Node script: the steps of runMigration()

\* the step named step ran; remembered when an absence had been reported before it
Step(step, cmds, bad) ==
    /\ invoked' = invoked \cup cmds
    /\ failed' = failed \cup bad
    /\ afterMissing' = IF missingSeen THEN afterMissing \cup {step} \cup cmds
                       ELSE afterMissing

\* runCommand(cmd) as the last thing a step does: on failure printError and
\* process.exit(1), otherwise on to the next step
RunCommand(step, cmd, ok, next) ==
    /\ Step(step, {cmd}, IF ok THEN {} ELSE {cmd})
    /\ IF ok
       THEN pc' = next /\ UNCHANGED <<exited, exitCode>>
       ELSE Exit(1)

\* currentMajorVersion < parseInt(NODE_VERSION, 10); false when either is NaN
TooLow(version) ==
    /\ MajorOf(version) # -1
    /\ ParseInt(NODE_VERSION) # -1
    /\ MajorOf(version) < ParseInt(NODE_VERSION)

VerifyNodeCompatibility ==
    /\ pc = "verify"
    /\ IF TooLow(node.version)
       THEN Exit(1)
       ELSE pc' = "updatePackageJson" /\ UNCHANGED <<exited, exitCode>>
    /\ Step("verifyNodeCompatibility", {}, {})
    /\ UNCHANGED <<completed, pkgExists, missingSeen, reactVars, node>>

\* an absent package.json is reported with printError and the function returns
UpdateNodeVersionInPackageJson ==
    /\ pc = "updatePackageJson"
    /\ IF pkgExists
       THEN /\ node' = [node EXCEPT !.engines = ">=" \o NODE_VERSION]
            /\ UNCHANGED missingSeen
       ELSE /\ missingSeen' = TRUE
            /\ UNCHANGED node
    /\ pc' = "updateWorkflows"
    /\ Step("updateNodeVersionInPackageJson", {}, {})
    /\ UNCHANGED <<exited, exitCode, completed, pkgExists, reactVars>>

\* readdirSync throws when ./.github/workflows/ is absent; nothing catches it, the
\* promise of runMigration() rejects and the process ends with the error and code 1
UpdateNodeVersionInGitHubActions ==
    /\ pc = "updateWorkflows"
    /\ IF node.hasWorkflows
       THEN /\ node' = [node EXCEPT !.workflows =
                          [i \in 1..Len(node.workflows) |-> UpdateWorkflow(node.workflows[i])]]
            /\ pc' = "updateTypesNode"
            /\ UNCHANGED <<missingSeen, exited, exitCode>>
       ELSE /\ missingSeen' = TRUE
            /\ Exit(1)
            /\ UNCHANGED node
    /\ Step("updateNodeVersionInGitHubActions", {}, {})
    /\ UNCHANGED <<completed, pkgExists, reactVars>>

\* readFileSync throws when package.json is absent; the catch prints and goes on
UpdateTypesNode ==
    /\ pc = "updateTypesNode"
    /\ IF pkgExists /\ node.typesNode # ""
       THEN \E ok \in BOOLEAN :
               /\ RunCommand("updateTypesNode", "npm install --save-dev @types/node",
                             ok, "installDependencies")
               /\ node' = IF ok THEN [node EXCEPT !.typesNode = "^" \o NODE_VERSION \o ".0.0"]
                          ELSE node
       ELSE /\ Step("updateTypesNode", {}, {})
            /\ pc' = "installDependencies"
            /\ UNCHANGED <<exited, exitCode, node>>
    /\ UNCHANGED <<completed, pkgExists, missingSeen, reactVars>>

InstallDependencies ==
    /\ pc = "installDependencies"
    /\ \E ok \in BOOLEAN :
          RunCommand("installDependencies", "npm install", ok, "promptUpdateRplan")
    /\ UNCHANGED <<completed, pkgExists, missingSeen, reactVars, node>>

\* updateRplanDependency up to its await: rl.question is issued
PromptUpdateRplan ==
    /\ pc = "promptUpdateRplan"
    /\ node' = [node EXCEPT !.pending = "rplan"]
    /\ pc' = "awaitRplan"
    /\ Step("promptUpdateRplan", {}, {})
    /\ UNCHANGED <<exited, exitCode, completed, pkgExists, missingSeen, reactVars>>

\* readline hands a line to the callback of the pending question. Callbacks run
\* only while no synchronous code of runMigration() is running: at its await or
\* after it returned, and only while the interface is open.
Line ==
    /\ pc \in {"awaitRplan", "returned"}
    /\ ~exited
    /\ node.rlOpen
    /\ node.pending # "none"
    /\ \E answer \in NodeAnswers :
          IF node.pending = "rplan"
          THEN /\ node' = [node EXCEPT !.pending = "none",
                                      !.rplanAnswer = [given |-> TRUE, text |-> answer]]
               /\ pc' = "updateRplan"
          ELSE /\ node' = [node EXCEPT !.pending = "none",
                                      !.dockerAnswer = [given |-> TRUE, text |-> answer]]
               /\ UNCHANGED pc
    /\ UNCHANGED <<exited, exitCode, completed, invoked, failed, pkgExists, missingSeen,
                   afterMissing, reactVars>>

\* updateRplanDependency after its await
UpdateRplanDependency ==
    /\ pc = "updateRplan"
    /\ IF SaysYes(node.rplanAnswer.text)
       THEN \E ncuOk \in BOOLEAN, installOk \in BOOLEAN :
               IF ~ncuOk
               THEN RunCommand("updateRplanDependency", "npx npm-check-updates", FALSE,
                               "dockerfiles")
               ELSE /\ Step("updateRplanDependency",
                            {"npx npm-check-updates", "npm install"},
                            IF installOk THEN {} ELSE {"npm install"})
                    /\ IF installOk
                       THEN pc' = "dockerfiles" /\ UNCHANGED <<exited, exitCode>>
                       ELSE Exit(1)
       ELSE /\ Step("updateRplanDependency", {}, {})
            /\ pc' = "dockerfiles"
            /\ UNCHANGED <<exited, exitCode>>
    /\ UNCHANGED <<completed, pkgExists, missingSeen, reactVars, node>>

\* the Dockerfiles are rewritten and the verification question is issued; the
\* function returns without waiting for the answer
CheckAndUpdateDockerfiles ==
    /\ pc = "dockerfiles"
    /\ IF Len(node.dockerfiles) = 0
       THEN UNCHANGED node
       ELSE node' = [node EXCEPT
                       !.dockerfiles = [i \in 1..Len(node.dockerfiles) |->
                                           UpdateDockerfile(node.dockerfiles[i])],
                       !.pending = "docker"]
    /\ pc' = "printSuccess"
    /\ Step("checkAndUpdateDockerfiles", {}, {})
    /\ UNCHANGED <<exited, exitCode, completed, pkgExists, missingSeen, reactVars>>

PrintSuccess ==
    /\ pc = "printSuccess"
    /\ completed' = TRUE
    /\ pc' = "closeRl"
    /\ Step("printSuccess", {}, {})
    /\ UNCHANGED <<exited, exitCode, pkgExists, missingSeen, reactVars, node>>

\* runMigration() returning with the interface left open: the process stays alive
ReturnKeepingRlOpen ==
    /\ pc = "closeRl"
    /\ pc' = "returned"
    /\ Step("return", {}, {})
    /\ UNCHANGED <<exited, exitCode, completed, pkgExists, missingSeen, reactVars, node>>

\* rl.close(), then runMigration() returns; nothing keeps the process alive and it
\* ends with code 0
CloseRl ==
    /\ pc = "closeRl"
    /\ node' = [node EXCEPT !.rlOpen = FALSE]
    /\ pc' = "returned"
    /\ exited' = TRUE
    /\ exitCode' = 0
    /\ Step("rl.close", {}, {})
    /\ UNCHANGED <<completed, pkgExists, missingSeen, reactVars>>

NextNode ==
    \/ VerifyNodeCompatibility
    \/ UpdateNodeVersionInPackageJson
    \/ UpdateNodeVersionInGitHubActions
    \/ UpdateTypesNode
    \/ InstallDependencies
    \/ PromptUpdateRplan
    \/ Line
    \/ UpdateRplanDependency
    \/ CheckAndUpdateDockerfiles
    \/ PrintSuccess
    \/ CloseRl

SpecNode == InitNode /\ [][NextNode]_vars

-----------------------------------------------------------------------------
\* Properties of the React script (specification Spec)

\* answers that, trimmed, are neither y nor yes in any letter case
NonAffirmative == {"n", "", "no", "yes please"}

\* a gate has run its scan
Scanned(g) == gate[g] # "notrun"

\* the anchor packages a gate looks for
AnchorsOf(g) ==
    IF g = "rplan" THEN {"react", "react-dom"}
    ELSE {"react", "react-dom", "@testing-library/react"}

\* the dependencies a gate examines
ExaminedBy(g) ==
    IF g = "rplan" THEN RplanDeps(pkg)
    ELSE {d \in OtherDeps(pkg) : ~Exempt(pkg, d)}

Recorded(g, dep, key) ==
    \E i \in issues[g] : i.name = dep /\ i.peer = key

\* the peer requirements (dependency, anchor) a gate can read from parsable manifests
Requirements(g) ==
    {<<d, k>> \in ExaminedBy(g) \X AnchorsOf(g) :
        /\ nodeModules[d].state = "ok"
        /\ k \in DOMAIN nodeModules[d].peer
        /\ nodeModules[d].peer[k] # ""}

\* C1: when a gate has recorded an incompatibility and the operator's answer is
\* not affirmative, the run has ended with a non-zero exit code, the gate is the
\* last thing that ran: the following gate did not run and npm install was not
\* invoked, and the completion message was not printed.
C1_DeclineAborts ==
    \A g \in GateNames :
        (issues[g] # {} /\ answers[g].given /\ answers[g].text \in NonAffirmative)
        => /\ gate[g] = "Abort"
           /\ pc = "exited" /\ exited /\ exitCode # 0
           /\ "npm install" \notin invoked
           /\ ~completed
           /\ g = "rplan" => (gate["other"] = "notrun" /\ prompts["other"] = 0)

C1_Witness ==
    /\ gate["rplan"] = "Proceed" /\ answers["rplan"].given
    /\ gate["other"] = "Abort" /\ answers["other"].text = "no"
    /\ issues["other"] # {}

\* C2 as stated: package.json is written only after both gates returned Proceed,
\* and a run that ends in Abort leaves it as it was at start.
C2_WritesOnlyAfterProceed ==
    /\ pkgWrites > 0 => (gate["rplan"] = "Proceed" /\ gate["other"] = "Proceed")
    /\ (\E g \in GateNames : gate[g] = "Abort") => (pkgWrites = 0 /\ pkg = pkgAtStart)

GateStarted ==
    \/ pc \in {"checkRplan", "prompt", "checkNonRplan", "npmInstall", "done"}
    \/ \E g \in GateNames : Scanned(g)

\* C2 amended: every write to package.json happens before the first gate starts.
\* When a gate starts, package.json has been written at least twice (by
\* updateCoreReactDeps and syncRplanPeerDepsToInstalled), and from then on no
\* step writes it: a run that ends in Abort leaves it as those steps wrote it.
C2_WritesOnlyBeforeGates ==
    [][GateStarted' =>
          /\ pkgWrites' >= 2
          /\ GateStarted => (pkg' = pkg /\ pkgWrites' = pkgWrites)]_vars

C2_Witness ==
    /\ gate["other"] = "Abort"
    /\ pkgWrites = 3
    /\ pkg # pkgAtStart

\* C3: a gate whose scan records no issue proceeds without a prompt and without
\* an answer; a gate prompts at most once, and only with issues recorded; while
\* a gate waits for the operator, or after it aborted, it has issues recorded.
C3_NoIssueNoPrompt ==
    \A g \in GateNames :
        /\ prompts[g] <= 1
        /\ prompts[g] = 1 => issues[g] # {}
        /\ answers[g].given => prompts[g] = 1
        /\ (Scanned(g) /\ issues[g] = {})
           => /\ gate[g] = "Proceed"
              /\ prompts[g] = 0
              /\ ~answers[g].given
              /\ pc # "prompt" \/ gate[g] # "prompting"
              /\ g = "rplan" => pc # "checkRplan"

C3_Witness ==
    /\ pc = "checkNonRplan"
    /\ RplanDeps(pkg) # {}
    /\ \E d \in RplanDeps(pkg) : nodeModules[d].peer # NoPeers
    /\ issues["rplan"] = {}
    /\ gate["rplan"] = "Proceed"
    /\ prompts["rplan"] = 0

\* a range that contains the old major 17 and not the new major 18
NamesOldMajorOnly(range) == Contains(range, "17") /\ ~Contains(range, "18")

\* C4 as stated: every peer requirement on an anchor whose range contains 17 and
\* not 18, in whatever form, is recorded as an issue by the gate that examines it.
C4_EveryOldMajorRangeRecorded ==
    \A g \in GateNames :
        Scanned(g) =>
            \A dk \in Requirements(g) :
                NamesOldMajorOnly(nodeModules[dk[1]].peer[dk[2]]) => Recorded(g, dk[1], dk[2])

\* a range that contains the literal text "17." and does not contain "18"
HasOldMajorDot(range) ==
    /\ \E i \in 1..(Len(range) - 2) : SubSeq(range, i, i + 2) = "17."
    /\ \A i \in 1..(Len(range) - 1) : SubSeq(range, i, i + 1) # "18"

\* C4 amended: a peer requirement on an anchor is recorded as an issue exactly
\* when its range contains the text "17." and does not contain "18"; a range that
\* names major 17 without a dot after it ("^17", ">=17") is not recorded.
C4_OldMajorDotRecorded ==
    \A g \in GateNames :
        Scanned(g) =>
            /\ \A dk \in Requirements(g) :
                  Recorded(g, dk[1], dk[2]) <=> HasOldMajorDot(nodeModules[dk[1]].peer[dk[2]])
            /\ \A i \in issues[g] :
                  /\ <<i.name, i.peer>> \in Requirements(g)
                  /\ i.required = nodeModules[i.name].peer[i.peer]

C4_Witness ==
    /\ Scanned("other")
    /\ \E i \in issues["other"] :
          i.name = "widget-lib" /\ i.peer = "@testing-library/react" /\ i.required = "17.x"
    /\ \E i \in issues["rplan"] : i.peer = "react-dom" /\ i.required = "17.x"

\* a project declaration at major 18, exact or caret
DeclaresMajor18(group, name) ==
    /\ group.present
    /\ name \in DOMAIN group.deps
    /\ group.deps[name] \in {"18.2.0", "^18.3.1", "^18.0.0", "18.x"}

\* C5: an allow-listed dependency that the project declares at major 18 in
\* dependencies or devDependencies has no issue recorded by the gate.
C5_AllowListedAt18NeverRecorded ==
    Scanned("other") =>
        \A d \in ignoreWarningsFor :
            (DeclaresMajor18(pkg.dependencies, d) \/ DeclaresMajor18(pkg.devDependencies, d))
            => ~\E i \in issues["other"] : i.name = d

\* ranges that name major 17 with a dot and nothing of major 18
PlainlyIncompatible == {"^17.0.0", "17.x", "^16.8.0 || ^17.0.0"}

\* C6: a dependency whose installed manifest is missing or unparsable has no
\* issue recorded; the issues of the other examined dependencies are recorded
\* all the same; a gate all of whose dependencies are missing or unparsable
\* proceeds without a prompt.
C6_UnknownNeverIncompatible ==
    \A g \in GateNames :
        Scanned(g) =>
            /\ \A i \in issues[g] : nodeModules[i.name].state = "ok"
            /\ \A dk \in Requirements(g) :
                  nodeModules[dk[1]].peer[dk[2]] \in PlainlyIncompatible
                  => Recorded(g, dk[1], dk[2])
            /\ (\A d \in ExaminedBy(g) : nodeModules[d].state # "ok")
               => (issues[g] = {} /\ prompts[g] = 0 /\ gate[g] = "Proceed")

C6_Witness ==
    /\ Scanned("other")
    /\ nodeModules["widget-lib"].state = "unparsable"
    /\ nodeModules["@rplan/ui"].state = "missing"
    /\ gate["rplan"] = "Proceed" /\ prompts["rplan"] = 0
    /\ \E i \in issues["other"] : i.name = "react-test-renderer"

PackageManagerCommands ==
    {"ncu -u", "npm install", "npm install --save-dev @types/node", "npx npm-check-updates"}

\* C7: once a package-manager command has returned non-zero the run has halted
\* with a non-zero exit code and the completion message is not printed.
C7_CommandFailureHalts ==
    (failed \cap PackageManagerCommands # {})
    => (exited /\ exitCode # 0 /\ ~completed)

Keys(group) == DOMAIN group.deps

Targets == DOMAIN TARGET_VERSIONS

KeysKept(p, q) == \A g \in GroupNames : Keys(q[g]) = Keys(p[g])

\* updateCoreReactDeps as C9 states it: every present entry named in
\* TARGET_VERSIONS gets the target range, every other entry keeps its value
CoreFrameStated(p, q) ==
    /\ KeysKept(p, q)
    /\ \A g \in GroupNames : \A n \in Keys(p[g]) :
          q[g].deps[n] = IF n \in Targets THEN TARGET_VERSIONS[n] ELSE p[g].deps[n]

\* the same, for the present entries whose value is not the empty string
CoreFrameNonEmpty(p, q) ==
    /\ KeysKept(p, q)
    /\ \A g \in GroupNames : \A n \in Keys(p[g]) :
          q[g].deps[n] = IF n \in Targets /\ p[g].deps[n] # ""
                         THEN TARGET_VERSIONS[n] ELSE p[g].deps[n]

\* syncRplanPeerDepsToInstalled as C9 states it
SyncFrame(p, q) ==
    /\ KeysKept(p, q)
    /\ q.dependencies = p.dependencies
    /\ q.devDependencies = p.devDependencies
    /\ \A n \in Keys(p.peerDependencies) :
          q.peerDependencies.deps[n] # p.peerDependencies.deps[n]
          => /\ StartsWith(n, "@rplan/")
             /\ n \in Keys(p.dependencies) \cup Keys(p.devDependencies)
             /\ q.peerDependencies.deps[n] =
                   IF n \in Keys(p.devDependencies) THEN p.devDependencies.deps[n]
                   ELSE p.dependencies.deps[n]

CoreStep == pc = "updateCore" /\ pc' = "ncu"

SyncStep == pc = "sync" /\ pc' = "checkRplan"

\* C9 as stated: neither step adds or removes an entry; updateCoreReactDeps sets
\* every present entry named in TARGET_VERSIONS to its target and changes nothing
\* else; syncRplanPeerDepsToInstalled changes only @rplan/ peer entries declared
\* in dependencies or devDependencies, to the devDependencies value first.
C9_FrameStated ==
    [][/\ CoreStep => CoreFrameStated(pkg, pkg')
       /\ SyncStep => SyncFrame(pkg, pkg')]_vars

\* C9 amended: as stated, except that updateCoreReactDeps sets the entries named
\* in TARGET_VERSIONS that are present with a non-empty version string; an entry
\* whose version is the empty string keeps it.
C9_FrameNonEmpty ==
    [][/\ CoreStep => CoreFrameNonEmpty(pkg, pkg')
       /\ SyncStep => SyncFrame(pkg, pkg')]_vars

C9_Witness ==
    /\ pc = "checkRplan"
    /\ pkg.dependencies # pkgAtStart.dependencies
    /\ \E n \in Keys(pkg.peerDependencies) :
          /\ StartsWith(n, "@rplan/")
          /\ n \in Keys(pkg.devDependencies)
          /\ pkg.peerDependencies.deps[n] # pkgAtStart.peerDependencies.deps[n]
          /\ pkg.peerDependencies.deps[n] = pkg.devDependencies.deps[n]

-----------------------------------------------------------------------------
\* Properties of the Node script (specification SpecNode)

\* C8: once package.json or the workflows directory has been found absent the
\* run has ended with a non-zero exit code, and no step or command ran after it.
C8_MissingFileHalts ==
    missingSeen => (exited /\ exitCode # 0 /\ afterMissing = {})

AfterDockerStep == pc \in {"printSuccess", "closeRl", "returned"}

\* C10: no answer to the Dockerfile prompt is ever processed. With a Dockerfile
\* found, the prompt is still pending when the completion message is printed,
\* and when runMigration() has returned the interface is closed and the process
\* has ended with code 0 whatever the operator would have typed. The @rplan
\* prompt has been answered before the Dockerfile step starts.
C10_DockerPromptNeverAwaited ==
    /\ ~node.dockerAnswer.given
    /\ (AfterDockerStep /\ Len(node.dockerfiles) >= 1) => node.pending = "docker"
    /\ (completed /\ Len(node.dockerfiles) >= 1) => node.pending = "docker"
    /\ pc = "returned" => (completed /\ ~node.rlOpen /\ exited /\ exitCode = 0)
    /\ (pc = "dockerfiles" \/ AfterDockerStep)
       => (node.rplanAnswer.given /\ node.pending # "rplan")

C10_Witness ==
    /\ pc = "returned"
    /\ Len(node.dockerfiles) >= 1
    /\ node.pending = "docker"
    /\ completed
    /\ exited

====
